---- MODULE Spec2Model ----
(***************************************************************************)
(* Region / country drill-down of the migration dashboard.                 *)
(*                                                                         *)
(* Home (src/pages/index.tsx) owns the selection state and renders         *)
(* RegionMap.  RegionMap exists in several revisions: the MapLibre one     *)
(* (src/components/RegionMap.tsx, lines 94-398), whose effect fetches the  *)
(* two geometry files and builds a map on every render of Home, and the    *)
(* SVG one (src/unnamed/part_001), which loads the geometry once and       *)
(* renders paths from its props.  The variable `variant` says which        *)
(* revision of RegionMap is mounted.                                       *)
(*                                                                         *)
(* React is modelled at the granularity of a commit: a handler applies its *)
(* batched state updates and the render is committed (effectsPending);     *)
(* Flush then runs the effects of that commit.  Passive effects are        *)
(* flushed before the next update is processed, so handlers are enabled    *)
(* only when no effect is pending.                                         *)
(***************************************************************************)
EXTENDS Integers, Sequences, FiniteSets, TLC

VARIABLES
    variant,          \* "maplibre" | "svg": the RegionMap revision mounted
    selectedRegion,   \* Home state
    viewMode,         \* Home state: "region" | "country"
    selectedCountry,  \* Home state: NULL or a string
    regions,          \* Home state: region names of the dropdown
    summaryPc,        \* Home.load: "pending" | "done" | "failed"
    resetDep,         \* [selectedRegion] dependency the reset effect last ran with
    effectsPending,   \* a render was committed and its effects have not run yet
    runs,             \* runs of the RegionMap effect that can still act
    lastEvent,        \* history: the last handler that ran, its argument, the state before
    mounted,          \* the page is mounted
    fn,               \* the call of a pure function under check: inputs and result
    lastHover         \* history: the last pointer-move / pointer-leave on the hit layer

vars == << variant, selectedRegion, viewMode, selectedCountry, regions, summaryPc,
           resetDep, effectsPending, runs, lastEvent, mounted, fn, lastHover >>

\* no pointer-move or pointer-leave has reached the hit layer yet
NoHover == [ ev |-> "none", name |-> "" ]

\* what the handlers of the mounted page leave alone
others == << mounted, fn, lastHover >>

\* ---------------------------------------------------------------- bounds
\* runs of the map effect kept at the same time (the current one and the
\* ones whose cleanup ran while their fetches were still pending)
MaxRuns == 2

\* features of a collection handed to regionFC / regionCountries
MaxFeatures == 2

\* positions of a ring and rings of a polygon handed to fitToFeature
MaxRing == 2

\* runs of the layer creation on one surface
MaxCalls == 2

\* ---------------------------------------------------------------- values
NULL == "<null>"          \* useState<string | null>(null)
Unmounted == "<unmounted>" \* the reset effect has not run yet

\* /data/regions.geojson and /data/countries.geojson: static files
RegionsGeo ==
    << [NAME |-> "Africa"], [NAME |-> "Europe"] >>

CountriesGeo ==
    << [NAME |-> "Kenya",  CONTINENT |-> "Africa"],
       [NAME |-> "Egypt",  CONTINENT |-> "Africa"],
       [NAME |-> "France", CONTINENT |-> "Europe"] >>

\* /data/region_summaries.json: the d.region of each entry ("" = missing)
SummaryArrays ==
    { << >>, << "Africa", "Europe" >>, << "", "Europe" >> }

\* what a fetch of a geometry file can come to
FetchOutcomes == { "ok", "unreachable", "httpError", "parseError" }

Range(s) == { s[i] : i \in 1..Len(s) }
Names(fc) == { fc[i].NAME : i \in 1..Len(fc) }

\* ---------------------------------------------------------------- Home
Sel == [ selectedRegion  |-> selectedRegion,
         viewMode        |-> viewMode,
         selectedCountry |-> selectedCountry ]

\* regionArr.map(d => d.region).filter(Boolean)
RegionList(arr) == SelectSeq(arr, LAMBDA n : n # "")

\* Home.load after the first fetch: the closure holds the selectedRegion of
\* the first render, which is ""
LoadRegions(st, arr) ==
    IF Len(RegionList(arr)) > 0
    THEN [st EXCEPT !.selectedRegion = RegionList(arr)[1]]
    ELSE st

\* onChange={(val) => setSelectedRegion(val)}
DropdownOnChange(st, val) == [st EXCEPT !.selectedRegion = val]

ResetEffect_KeepCountry(st) == [st EXCEPT !.viewMode = "region"]

\* useEffect(() => { setViewMode("region"); setSelectedCountry(null) }, [selectedRegion])
ResetEffect(st) == [st EXCEPT !.viewMode = "region", !.selectedCountry = NULL]

BackOnClick_KeepCountry(st) == [st EXCEPT !.viewMode = "region"]

\* Back button: setViewMode("region"); setSelectedCountry(null)
BackOnClick(st) == [st EXCEPT !.viewMode = "region", !.selectedCountry = NULL]

\* {viewMode === "country" && selectedCountry && ( <button> ... )}
BackVisible(st) ==
    st.viewMode = "country" /\ st.selectedCountry \notin { NULL, "" }

OnCountrySelect_NoMode(st, neName) == [st EXCEPT !.selectedCountry = neName]

\* onCountrySelect={(neName) => { setSelectedCountry(neName); setViewMode("country") }}
OnCountrySelect(st, neName) ==
    [st EXCEPT !.selectedCountry = neName, !.viewMode = "country"]

\* selectedRegion={selectedRegion || regions[0] || "Africa"}
MapRegionProp(st, regs) ==
    IF st.selectedRegion # "" THEN st.selectedRegion
    ELSE IF Len(regs) > 0 THEN regs[1]
    ELSE "Africa"

\* ---------------------------------------------------------------- RegionMap
FilterCountries_ByName(features, region) ==
    SelectSeq(features, LAMBDA f : f.NAME = region)

\* (countriesGeo?.features || []).filter(f => f?.properties?.CONTINENT === selectedRegion)
FilterCountries(features, region) ==
    SelectSeq(features, LAMBDA f : f.CONTINENT = region)

\* the countries source built from /data/countries.geojson
RegionCountries(region) == FilterCountries(CountriesGeo, region)

RegionFC_EveryMatch(features, region) ==
    SelectSeq(features, LAMBDA f : f.NAME = region)

\* regionFeature = regionsGeo.features.find(f => f.properties.NAME === selectedRegion)
\* regionFC.features = regionFeature ? [regionFeature] : []
RegionFC(features, region) ==
    LET hits == { i \in 1..Len(features) : features[i].NAME = region }
    IN  IF hits = {} THEN << >>
        ELSE << features[CHOOSE i \in hits : \A j \in hits : i <= j] >>

RiskOf_DefaultGreen(regionData, key) ==
    IF key \in DOMAIN regionData /\ regionData[key] # ""
    THEN regionData[key] ELSE "Green"

\* regionData[selectedRegion]?.risk_zone || "Warning"
\* regionData maps a region name to the risk_zone of its summary ("" = the
\* summary has none)
RiskOf(regionData, key) ==
    IF key \in DOMAIN regionData /\ regionData[key] # ""
    THEN regionData[key] ELSE "Warning"

\* REGION_COLORS[regionRisk]
RegionColor(zone) ==
    IF zone = "Green" THEN "#22c55e"
    ELSE IF zone = "Warning" THEN "#fbbf24"
    ELSE IF zone = "Red" THEN "#ef4444"
    ELSE "undefined"

\* fetchJson: a rejected fetch, a non-OK status and a parse error all throw
FetchJson(outcome) == IF outcome = "ok" THEN "fulfilled" ELSE "rejected"

PromiseAll_Any(a, b) ==
    IF a = "fulfilled" \/ b = "fulfilled" THEN "fulfilled"
    ELSE IF a = "rejected" \/ b = "rejected" THEN "rejected"
    ELSE "pending"

\* Promise.all([a, b]): rejects with the first rejection, fulfils when both did
PromiseAll(a, b) ==
    IF a = "rejected" \/ b = "rejected" THEN "rejected"
    ELSE IF a = "fulfilled" /\ b = "fulfilled" THEN "fulfilled"
    ELSE "pending"

\* one run of the map effect: the props its closure captured, its two fetches,
\* its position, the filter of country-highlight / country-outline, the
\* WebGL context of its canvas ("ok", "lost", "restored" after a loss), the
\* feature the last fitBounds / easeTo of its map frames ("world": centre
\* [10, 20] at zoom 1.8, which is also what the constructor is given), the
\* data of its region source and the opacity region-fill was added with, and
\* in the revision with the fade-in the opacity t of the animation, in
\* hundredths, and whether a requestAnimationFrame(step) is outstanding.
\* Runs that have a map are kept in the order their maps were created: each
\* map appends its canvas to the same container, the last one on top.
\* the style has no region source / no region-fill layer yet
NoSource == "<none>"

\* the revisions of RegionMap that build a MapLibre map in their effect:
\* RegionMap.tsx 94-398 and, with the fade-in of region-fill, 400-658
MapLibre == { "maplibre", "fade" }

\* "fill-opacity": viewMode === "region" ? 0.35 : 0.18 (0.68 : 0.25 in the
\* revision with the fade-in)
FillOpacity(vm) ==
    IF variant = "fade" THEN (IF vm = "region" THEN "0.68" ELSE "0.25")
    ELSE IF vm = "region" THEN "0.35" ELSE "0.18"

NewRun(region, vm, sc) ==
    [ region |-> region, vm |-> vm, sc |-> sc,
      fr |-> "pending", fc |-> "pending",
      pc |-> "fetching", current |-> TRUE, hl |-> "", ctx |-> "ok",
      vp |-> "world", src |-> NoSource, opacity |-> NoSource,
      t |-> 0, frame |-> FALSE, fill |-> 0, tip |-> "" ]

\* the effect's cleanup: `if (map) map.remove()` removes the map of the run
\* being cleaned up when it exists, and the loop over firstChild removes every
\* child of the container, the canvases of maps created by earlier runs
\* included.  What is left are the runs whose fetches are still pending: their
\* `map` is null, nothing cancels them, and they go on to create a map.
Stale(r) == [r EXCEPT !.current = FALSE]

\* map.remove() of the run being cleaned up does not cancel the animation
\* frame its load handler requested: the run stays as "removed" until the
\* frame has fired
FramePending(r) == r.current /\ r.pc = "loaded" /\ r.frame
Removed(r) == [r EXCEPT !.current = FALSE, !.pc = "removed", !.tip = ""]

Cleanup(rs) ==
    LET kept == SelectSeq(rs, LAMBDA r : \/ r.pc \in { "fetching", "removed" }
                                         \/ FramePending(r))
    IN  [ i \in 1..Len(kept) |->
            IF FramePending(kept[i]) THEN Removed(kept[i]) ELSE Stale(kept[i]) ]

\* "Initial fit": the filter the load handler leaves on the highlight layers
InitialFilter(r) ==
    IF r.vm = "country" /\ r.sc \notin { NULL, "" }
       /\ r.sc \in Names(RegionCountries(r.region))
    THEN r.sc ELSE ""

\* regionFeature ? fitToFeature(map, regionFeature, 60) : easeTo(world)
ResetTarget_Keep(r) == r.vp

ResetTarget(r) ==
    IF RegionFC(RegionsGeo, r.region) # << >> THEN r.region ELSE "world"

\* "Initial fit": the country when it is found, else the region when it has
\* a feature, else no request at all
InitialFit(r) ==
    IF InitialFilter(r) # "" THEN r.sc
    ELSE IF RegionFC(RegionsGeo, r.region) # << >> THEN r.region
    ELSE r.vp

\* the component returns the same container (or the same <svg>) on every
\* render; the map, when one was created, lives inside it
MapView ==
    IF variant = "svg" THEN "svg"
    ELSE IF \E i \in 1..Len(runs) : runs[i].pc \in { "created", "loaded" }
         THEN "map" ELSE "container"

\* SVG revision: isSelected = viewMode === "country" && selectedCountry === name,
\* evaluated for the paths of regionCountries
SvgSelected(st, regs) ==
    IF st.viewMode = "country"
       /\ st.selectedCountry \in Names(RegionCountries(MapRegionProp(st, regs)))
    THEN st.selectedCountry ELSE ""

\* SVG revision: fitTarget, the feature the projection is fitted to
SvgFitTarget(st, regs) ==
    IF SvgSelected(st, regs) \notin { "", NULL } THEN st.selectedCountry
    ELSE IF RegionFC(RegionsGeo, MapRegionProp(st, regs)) # << >>
         THEN MapRegionProp(st, regs)
    ELSE "world"

\* the country the surface of run r shows highlighted ("" = none)
Highlighted(r) == IF variant = "svg" THEN SvgSelected(Sel, regions) ELSE r.hl

\* ---------------------------------------------------------------- React
\* runs the effects of a commit will start: the map effect depends on
\* onCountrySelect, a new function on every render of Home, so it re-runs on
\* every commit; the reset effect may cause a second commit
RunsStarted(st, forced) ==
    IF variant = "svg" THEN 0
    ELSE IF st = Sel /\ ~forced THEN 0
    ELSE IF st.selectedRegion # resetDep /\ ResetEffect(st) # st THEN 2
    ELSE 1

Room(st, forced) == Len(Cleanup(runs)) + RunsStarted(st, forced) <= MaxRuns

Commit(st, forced) ==
    /\ selectedRegion' = st.selectedRegion
    /\ viewMode' = st.viewMode
    /\ selectedCountry' = st.selectedCountry
    /\ effectsPending' = (forced \/ st # Sel)

\* lost: the handler wrote to a surface whose context was lost
EventOn(op, arg, lost) == [ op |-> op, arg |-> arg, pre |-> Sel, lost |-> lost ]
Event(op, arg) == EventOn(op, arg, FALSE)

NoCall == [ op |-> "none" ]

Init ==
    /\ variant \in { "maplibre", "svg" }
    /\ selectedRegion = ""
    /\ viewMode = "region"
    /\ selectedCountry = NULL
    /\ regions = << >>
    /\ summaryPc = "pending"
    /\ resetDep = Unmounted
    /\ effectsPending = TRUE
    /\ runs = << >>
    /\ lastEvent = [ op |-> "mount", arg |-> "",
                     pre |-> [ selectedRegion |-> "", viewMode |-> "region",
                               selectedCountry |-> NULL ],
                     lost |-> FALSE ]
    /\ mounted = TRUE
    /\ lastHover = NoHover
    /\ fn = NoCall

\* the effects of the last commit: RegionMap's (child) first, then Home's
Flush ==
    /\ mounted
    /\ effectsPending
    /\ LET st == IF resetDep # selectedRegion THEN ResetEffect(Sel) ELSE Sel
       IN  /\ runs' = IF variant = "svg"
                      THEN (IF resetDep = Unmounted
                            THEN << NewRun("", "region", NULL) >>
                            ELSE runs)
                      ELSE Append(Cleanup(runs),
                                  NewRun(MapRegionProp(Sel, regions),
                                         viewMode, selectedCountry))
           /\ resetDep' = selectedRegion
           /\ selectedRegion' = st.selectedRegion
           /\ viewMode' = st.viewMode
           /\ selectedCountry' = st.selectedCountry
           /\ effectsPending' = (st # Sel)
    /\ UNCHANGED << variant, regions, summaryPc, lastEvent >>
    /\ UNCHANGED others

\* Home.load, first fetch resolved: setRegionData, setRegions, setSelectedRegion
SummaryLoaded(arr) ==
    /\ mounted
    /\ ~effectsPending
    /\ summaryPc = "pending"
    /\ Room(LoadRegions(Sel, arr), TRUE)
    /\ summaryPc' = "done"
    /\ regions' = RegionList(arr)
    /\ Commit(LoadRegions(Sel, arr), TRUE)
    /\ lastEvent' = Event("summaryLoaded", "")
    /\ UNCHANGED << variant, resetDep, runs >>
    /\ UNCHANGED others

\* Home.load: catch { /* ignore network errors for now */ }
SummaryFailed ==
    /\ mounted
    /\ ~effectsPending
    /\ summaryPc = "pending"
    /\ summaryPc' = "failed"
    /\ UNCHANGED << variant, selectedRegion, viewMode, selectedCountry, regions,
                    resetDep, effectsPending, runs, lastEvent >>
    /\ UNCHANGED others

\* RegionDropdown calls onChange with the value of one of its options
ChooseRegion(r) ==
    /\ mounted
    /\ ~effectsPending
    /\ r \in Range(regions)
    /\ Room(DropdownOnChange(Sel, r), FALSE)
    /\ Commit(DropdownOnChange(Sel, r), FALSE)
    /\ lastEvent' = Event("chooseRegion", r)
    /\ UNCHANGED << variant, regions, summaryPc, resetDep, runs >>
    /\ UNCHANGED others

BackClick ==
    /\ mounted
    /\ ~effectsPending
    /\ BackVisible(Sel)
    /\ Room(BackOnClick(Sel), FALSE)
    /\ Commit(BackOnClick(Sel), FALSE)
    /\ lastEvent' = Event("back", "")
    /\ UNCHANGED << variant, regions, summaryPc, resetDep, runs >>
    /\ UNCHANGED others

\* the continuation of `await Promise.all`: the MapLibre revision constructs
\* the map in mapContainer.current, which is null once the page is unmounted
\* (the constructor throws and the catch ends the run); the SVG revision
\* returns when its `mounted` flag was cleared and sets its state otherwise
Continue(r) ==
    IF variant = "svg" THEN (IF r.current THEN "loaded" ELSE "cancelled")
    ELSE IF mounted THEN "created" ELSE "failed"

Without(rs, i) == [ j \in 1..Len(rs) - 1 |-> IF j < i THEN rs[j] ELSE rs[j + 1] ]

\* one of the two fetches of run i settles; the continuation of the await
\* runs when Promise.all settles: it creates the map, or the catch logs the
\* error with console.error and the run ends
FetchSettle(i, which, outcome) ==
    /\ ~effectsPending
    /\ i \in 1..Len(runs)
    /\ LET r  == runs[i]
           fr == IF which = "regions" THEN FetchJson(outcome) ELSE r.fr
           fc == IF which = "countries" THEN FetchJson(outcome) ELSE r.fc
           p  == PromiseAll(fr, fc)
           pc == IF r.pc # "fetching" THEN r.pc
                 ELSE IF p = "rejected" THEN "failed"
                 ELSE IF p = "fulfilled" THEN Continue(r)
                 ELSE "fetching"
           r2 == [r EXCEPT !.fr = fr, !.fc = fc, !.pc = pc]
       IN  /\ (IF which = "regions" THEN r.fr ELSE r.fc) = "pending"
           /\ runs' = IF r.pc = "fetching" /\ pc = "created"
                      THEN Append(Without(runs, i), r2)
                      ELSE [runs EXCEPT ![i] = r2]
    /\ UNCHANGED << variant, selectedRegion, viewMode, selectedCountry, regions,
                    summaryPc, resetDep, effectsPending, lastEvent >>
    /\ UNCHANGED others

\* the fade-in's first write, in hundredths: setPaintProperty("region-fill",
\* "fill-opacity", viewMode === "region" ? 0.0 : 0.15)
FadeStart(vm) == IF vm = "region" THEN 0 ELSE 15

\* the load handler adds the sources and layers and then appends the tooltip
\* to mapContainer.current: after an unmount that is null, the handler throws
\* there and registers no handler ("layers")
LoadHandler(isMounted) == IF isMounted THEN "loaded" ELSE "layers"

\* map.on("load"): sources, layers, tooltip, reset button, handlers, initial fit
MapLoad(i) ==
    /\ ~effectsPending
    /\ variant \in MapLibre
    /\ i \in 1..Len(runs)
    /\ runs[i].pc = "created"
    /\ runs' = [runs EXCEPT ![i] =
                  IF mounted
                  THEN [runs[i] EXCEPT !.pc = LoadHandler(mounted),
                                       !.hl = InitialFilter(runs[i]),
                                       !.vp = InitialFit(runs[i]),
                                       !.src = runs[i].region,
                                       !.opacity = FillOpacity(runs[i].vm),
                                       !.frame = (variant = "fade"),
                                       !.fill = IF variant = "fade"
                                                THEN FadeStart(runs[i].vm)
                                                ELSE 0]
                  ELSE [runs[i] EXCEPT !.pc = LoadHandler(mounted)]]
    /\ UNCHANGED << variant, selectedRegion, viewMode, selectedCountry, regions,
                    summaryPc, resetDep, effectsPending, lastEvent >>
    /\ UNCHANGED others

\* what e.features?.[0] of a click can be besides a named country
Misses == { "<outside>", "<nameless>" }

\* the name the click handler goes on with; "" when it returns early
\* (`if (!f) return`, `if (!neName) return`)
ClickName(hit) == IF hit \in Misses THEN "" ELSE hit

\* map.on("click", "countries-hit"): a click on feature c of the hit layer
MapClick(i, c) ==
    /\ mounted
    /\ ~effectsPending
    /\ variant \in MapLibre
    /\ i \in 1..Len(runs)
    /\ runs[i].pc = "loaded"
    /\ c \in Names(RegionCountries(runs[i].region))
    /\ ClickName(c) # ""
    /\ Room(OnCountrySelect(Sel, c), FALSE)
    /\ Commit(OnCountrySelect(Sel, c), FALSE)
    /\ runs' = [runs EXCEPT ![i] = [runs[i] EXCEPT !.hl = c, !.vp = c]]
    /\ lastEvent' = EventOn("mapClick", c, runs[i].ctx = "lost")
    /\ UNCHANGED << variant, regions, summaryPc, resetDep >>
    /\ UNCHANGED others

MapClickMiss_ClearsFilter(i, hit) ==
    /\ mounted
    /\ ~effectsPending
    /\ variant \in MapLibre
    /\ i \in 1..Len(runs)
    /\ runs[i].pc = "loaded"
    /\ ClickName(hit) = ""
    /\ runs' = [runs EXCEPT ![i] = [runs[i] EXCEPT !.hl = ""]]
    /\ lastEvent' = Event("mapClickMiss", hit)
    /\ UNCHANGED << variant, selectedRegion, viewMode, selectedCountry, regions,
                    summaryPc, resetDep, effectsPending >>
    /\ UNCHANGED others

\* a click on the map outside every feature of countries-hit (the handler is
\* not called) or on a feature without NAME (the handler returns early)
MapClickMiss(i, hit) ==
    /\ mounted
    /\ ~effectsPending
    /\ variant \in MapLibre
    /\ i \in 1..Len(runs)
    /\ runs[i].pc = "loaded"
    /\ ClickName(hit) = ""
    /\ lastEvent' = Event("mapClickMiss", hit)
    /\ UNCHANGED << variant, selectedRegion, viewMode, selectedCountry, regions,
                    summaryPc, resetDep, effectsPending, runs >>
    /\ UNCHANGED others

\* resetBtn.onclick: clears the two filters and fits the region
MapResetClick(i) ==
    /\ mounted
    /\ ~effectsPending
    /\ variant \in MapLibre
    /\ i \in 1..Len(runs)
    /\ runs[i].pc = "loaded"
    /\ runs' = [runs EXCEPT ![i] = [runs[i] EXCEPT !.hl = "",
                                                 !.vp = ResetTarget(runs[i])]]
    /\ lastEvent' = EventOn("mapReset", "", runs[i].ctx = "lost")
    /\ UNCHANGED << variant, selectedRegion, viewMode, selectedCountry, regions,
                    summaryPc, resetDep, effectsPending >>
    /\ UNCHANGED others

\* SVG revision: onClick={() => onCountrySelect(name)} of a hit path
SvgClick(c) ==
    /\ mounted
    /\ ~effectsPending
    /\ variant = "svg"
    /\ Len(runs) = 1
    /\ runs[1].pc = "loaded"
    /\ c \in Names(RegionCountries(MapRegionProp(Sel, regions)))
    /\ Commit(OnCountrySelect(Sel, c), FALSE)
    /\ lastEvent' = Event("svgClick", c)
    /\ UNCHANGED << variant, regions, summaryPc, resetDep, runs >>
    /\ UNCHANGED others

\* SVG revision: <button onClick={() => onCountrySelect("")}>Reset view</button>
SvgResetClick ==
    /\ mounted
    /\ ~effectsPending
    /\ variant = "svg"
    /\ Commit(OnCountrySelect(Sel, ""), FALSE)
    /\ lastEvent' = Event("svgReset", "")
    /\ UNCHANGED << variant, regions, summaryPc, resetDep, runs >>
    /\ UNCHANGED others

Next ==
    \/ Flush
    \/ \E arr \in SummaryArrays : SummaryLoaded(arr)
    \/ SummaryFailed
    \/ \E r \in Names(RegionsGeo) : ChooseRegion(r)
    \/ BackClick
    \/ \E i \in 1..MaxRuns + 1, which \in { "regions", "countries" },
          outcome \in FetchOutcomes : FetchSettle(i, which, outcome)
    \/ \E i \in 1..MaxRuns + 1 : MapLoad(i)
    \/ \E i \in 1..MaxRuns + 1, c \in Names(CountriesGeo) : MapClick(i, c)
    \/ \E i \in 1..MaxRuns + 1 : MapResetClick(i)
    \/ \E i \in 1..MaxRuns + 1, hit \in Misses : MapClickMiss(i, hit)
    \/ \E c \in Names(CountriesGeo) : SvgClick(c)
    \/ SvgResetClick

Spec == Init /\ [][Next]_vars

\* ---------------------------------------------------------------- tooltip
\* SpecHover adds the pointer to Spec.  The tooltip of a MapLibre map is a
\* div its load handler creates with display "none"; `tip` of a run is the
\* name it shows, "" while it is hidden.  In the SVG revision `tip` is the
\* hoverName state of the component (hoverXY is set and cleared with it).

\* map.on("mousemove", "countries-hit"): display "block", innerHTML the name
MapMouseMove(i, c) ==
    /\ mounted
    /\ ~effectsPending
    /\ variant \in MapLibre
    /\ i \in 1..Len(runs)
    /\ runs[i].pc = "loaded"
    /\ c \in Names(RegionCountries(runs[i].region))
    /\ runs' = [runs EXCEPT ![i] = [runs[i] EXCEPT !.tip = c]]
    /\ lastHover' = [ ev |-> "move", name |-> c ]
    /\ UNCHANGED << variant, selectedRegion, viewMode, selectedCountry, regions,
                    summaryPc, resetDep, effectsPending, lastEvent, mounted, fn >>

\* map.on("mouseleave", "countries-hit"): display "none".  The map fires it
\* when the pointer leaves a feature it had entered on this map.
MapMouseLeave(i) ==
    /\ mounted
    /\ ~effectsPending
    /\ variant \in MapLibre
    /\ i \in 1..Len(runs)
    /\ runs[i].pc = "loaded"
    /\ runs[i].tip # ""
    /\ runs' = [runs EXCEPT ![i] = [runs[i] EXCEPT !.tip = ""]]
    /\ lastHover' = [ ev |-> "leave", name |-> "" ]
    /\ UNCHANGED << variant, selectedRegion, viewMode, selectedCountry, regions,
                    summaryPc, resetDep, effectsPending, lastEvent, mounted, fn >>

\* SVG revision, hit path: onMouseMove = setHoverName(name); setHoverXY(...)
SvgMouseMove(c) ==
    /\ mounted
    /\ ~effectsPending
    /\ variant = "svg"
    /\ Len(runs) = 1
    /\ runs[1].pc = "loaded"
    /\ c \in Names(RegionCountries(MapRegionProp(Sel, regions)))
    /\ runs' = [runs EXCEPT ![1] = [runs[1] EXCEPT !.tip = c]]
    /\ lastHover' = [ ev |-> "move", name |-> c ]
    /\ UNCHANGED << variant, selectedRegion, viewMode, selectedCountry, regions,
                    summaryPc, resetDep, effectsPending, lastEvent, mounted, fn >>

\* SVG revision, hit path: onMouseOut = setHoverName(null); setHoverXY(null)
\* (onMouseLeave of the container does the same)
SvgMouseOut ==
    /\ mounted
    /\ ~effectsPending
    /\ variant = "svg"
    /\ Len(runs) = 1
    /\ runs[1].tip # ""
    /\ runs' = [runs EXCEPT ![1] = [runs[1] EXCEPT !.tip = ""]]
    /\ lastHover' = [ ev |-> "leave", name |-> "" ]
    /\ UNCHANGED << variant, selectedRegion, viewMode, selectedCountry, regions,
                    summaryPc, resetDep, effectsPending, lastEvent, mounted, fn >>

\* the names the tooltips on the page show: {hoverName && hoverXY && <div>}
\* in the SVG revision, the divs with display "block" otherwise
TooltipsShown ==
    { runs[i].tip : i \in { j \in 1..Len(runs) : /\ runs[j].pc = "loaded"
                                                  /\ runs[j].tip # "" } }

NextHover ==
    \/ Next
    \/ \E i \in 1..MaxRuns + 1, c \in Names(CountriesGeo) : MapMouseMove(i, c)
    \/ \E i \in 1..MaxRuns + 1 : MapMouseLeave(i)
    \/ \E c \in Names(CountriesGeo) : SvgMouseMove(c)
    \/ SvgMouseOut

SpecHover == Init /\ [][NextHover]_vars

\* ---------------------------------------------------------------- older Home
\* src/unnamed/part_000 is an earlier revision of Home: selectedRegion starts
\* as "Africa", the summaries are neither filtered nor guarded, and the
\* RegionMap is given selectedRegion itself.  SpecOld runs this revision.
Undefined == "<undefined>"

\* .then((arr) => { ...; if (arr[0]?.region) setSelectedRegion(arr.region) }):
\* arr is the array, so arr.region is undefined
LoadRegionsOld(st, arr) ==
    IF Len(arr) > 0 /\ arr[1] # ""
    THEN [st EXCEPT !.selectedRegion = Undefined]
    ELSE st

InitOld ==
    /\ variant \in { "maplibre", "svg" }
    /\ selectedRegion = "Africa"
    /\ viewMode = "region"
    /\ selectedCountry = NULL
    /\ regions = << >>
    /\ summaryPc = "pending"
    /\ resetDep = Unmounted
    /\ effectsPending = TRUE
    /\ runs = << >>
    /\ lastEvent = Event("mount", "")
    /\ mounted = TRUE
    /\ lastHover = NoHover
    /\ fn = NoCall

\* first fetch of the effect resolved: setRegionData, setRegions(arr.map(d => d.region)),
\* setSelectedRegion
SummaryLoadedOld(arr) ==
    /\ mounted
    /\ ~effectsPending
    /\ summaryPc = "pending"
    /\ Room(LoadRegionsOld(Sel, arr), TRUE)
    /\ summaryPc' = "done"
    /\ regions' = arr
    /\ Commit(LoadRegionsOld(Sel, arr), TRUE)
    /\ lastEvent' = Event("summaryLoaded", "")
    /\ UNCHANGED << variant, resetDep, runs >>
    /\ UNCHANGED others

NextOld ==
    \/ Flush
    \/ \E arr \in SummaryArrays : SummaryLoadedOld(arr)
    \/ SummaryFailed
    \/ \E r \in Names(RegionsGeo) : ChooseRegion(r)
    \/ BackClick
    \/ \E i \in 1..MaxRuns + 1, which \in { "regions", "countries" },
          outcome \in FetchOutcomes : FetchSettle(i, which, outcome)
    \/ \E i \in 1..MaxRuns + 1 : MapLoad(i)
    \/ \E i \in 1..MaxRuns + 1, c \in Names(CountriesGeo) : MapClick(i, c)
    \/ \E i \in 1..MaxRuns + 1 : MapResetClick(i)
    \/ \E i \in 1..MaxRuns + 1, hit \in Misses : MapClickMiss(i, hit)
    \/ \E c \in Names(CountriesGeo) : SvgClick(c)
    \/ SvgResetClick

SpecOld == InitOld /\ [][NextOld]_vars

\* ---------------------------------------------------------------- create-once
\* The first revision of RegionMap (RegionMap.tsx 1-92) takes the props
\* regionFC and viewMode, creates its map in an effect that runs once and
\* updates the style in a second effect.  In SpecOnce, selectedRegion is the
\* region whose feature collection the parent passes as regionFC ("" = an
\* empty collection) and viewMode is the viewMode prop; runs holds the map,
\* its region and vm being what the closure of the load handler captured.
OnceViewModes == { "region", "detailed" }
OnceRegionFCs == { "", "Africa", "Europe" }

\* "fill-opacity": viewMode === "detailed" ? 0.7 : 0.3
OnceOpacity(vm) == IF vm = "detailed" THEN "0.7" ELSE "0.3"

InitOnce ==
    /\ variant = "once"
    /\ selectedRegion \in OnceRegionFCs
    /\ viewMode \in OnceViewModes
    /\ selectedCountry = NULL
    /\ regions = << >>
    /\ summaryPc = "pending"
    /\ resetDep = Unmounted
    /\ effectsPending = TRUE
    /\ runs = << >>
    /\ lastEvent = Event("mount", "")
    /\ mounted = TRUE
    /\ lastHover = NoHover
    /\ fn = NoCall

\* the second effect: setData when the source exists, setPaintProperty when
\* the layer exists
UpdateEffect(r) ==
    IF r.pc = "loaded"
    THEN [r EXCEPT !.src = selectedRegion, !.opacity = OnceOpacity(viewMode)]
    ELSE r

\* the effects of a commit: at mount the first effect creates the map, and
\* the second runs after it at mount and after every change of the props
FlushOnce ==
    /\ effectsPending
    /\ effectsPending' = FALSE
    /\ runs' = IF runs = << >>
               THEN << UpdateEffect([NewRun(selectedRegion, viewMode, NULL)
                                        EXCEPT !.pc = "created"]) >>
               ELSE << UpdateEffect(runs[1]) >>
    /\ UNCHANGED << variant, selectedRegion, viewMode, selectedCountry, regions,
                    summaryPc, resetDep, lastEvent >>
    /\ UNCHANGED others

\* the parent renders RegionMap with other props
SetProps(fc, vm) ==
    /\ ~effectsPending
    /\ << fc, vm >> # << selectedRegion, viewMode >>
    /\ selectedRegion' = fc
    /\ viewMode' = vm
    /\ effectsPending' = TRUE
    /\ lastEvent' = Event("setProps", fc)
    /\ UNCHANGED << variant, selectedCountry, regions, summaryPc, resetDep, runs >>
    /\ UNCHANGED others

\* map.current.on("load"): addSource("region", regionFC) and region-fill with
\* the regionFC and viewMode of the render the first effect ran in
OnceLoad ==
    /\ ~effectsPending
    /\ runs # << >>
    /\ runs[1].pc = "created"
    /\ runs' = << [runs[1] EXCEPT !.pc = "loaded",
                                  !.src = runs[1].region,
                                  !.opacity = OnceOpacity(runs[1].vm)] >>
    /\ lastEvent' = Event("load", "")
    /\ UNCHANGED << variant, selectedRegion, viewMode, selectedCountry, regions,
                    summaryPc, resetDep, effectsPending >>
    /\ UNCHANGED others

NextOnce ==
    \/ FlushOnce
    \/ \E fc \in OnceRegionFCs, vm \in OnceViewModes : SetProps(fc, vm)
    \/ OnceLoad

SpecOnce == InitOnce /\ [][NextOnce]_vars

\* ---------------------------------------------------------------- fade-in
\* The third revision of RegionMap (RegionMap.tsx 400-658) animates the
\* opacity of region-fill after the load handler.  SpecFade runs it.
\* const target = viewMode === "region" ? 0.68 : 0.25, in hundredths
FadeTarget(vm) == IF vm = "region" THEN 68 ELSE 25

\* t = Math.min(target, t + 0.06)
FadeNext(t, target) == IF t + 6 < target THEN t + 6 ELSE target

InitFade ==
    /\ variant = "fade"
    /\ selectedRegion = ""
    /\ viewMode = "region"
    /\ selectedCountry = NULL
    /\ regions = << >>
    /\ summaryPc = "pending"
    /\ resetDep = Unmounted
    /\ effectsPending = TRUE
    /\ runs = << >>
    /\ lastEvent = Event("mount", "")
    /\ mounted = TRUE
    /\ lastHover = NoHover
    /\ fn = NoCall

\* step: map.setPaintProperty("region-fill", "fill-opacity", t) and, while
\* t < target, requestAnimationFrame(step).  The frame also fires for a map
\* that was removed; the call on it either throws, which ends the
\* animation, or goes through.
FadeStep(i, throws) ==
    /\ ~effectsPending
    /\ variant = "fade"
    /\ i \in 1..Len(runs)
    /\ runs[i].frame
    /\ LET r  == runs[i]
           t  == FadeNext(r.t, FadeTarget(r.vm))
           r2 == [r EXCEPT !.t = t, !.fill = t,
                           !.frame = (t < FadeTarget(r.vm))]
       IN  IF r.pc = "removed"
           THEN /\ runs' = IF throws \/ ~r2.frame THEN Without(runs, i)
                           ELSE [runs EXCEPT ![i] = r2]
                /\ lastEvent' = Event("fadeStep", "removed")
           ELSE /\ ~throws
                /\ runs' = [runs EXCEPT ![i] = r2]
                /\ UNCHANGED lastEvent
    /\ UNCHANGED << variant, selectedRegion, viewMode, selectedCountry, regions,
                    summaryPc, resetDep, effectsPending >>
    /\ UNCHANGED others

NextFade ==
    \/ Flush
    \/ \E arr \in SummaryArrays : SummaryLoaded(arr)
    \/ SummaryFailed
    \/ \E r \in Names(RegionsGeo) : ChooseRegion(r)
    \/ BackClick
    \/ \E i \in 1..MaxRuns + 1, which \in { "regions", "countries" },
          outcome \in FetchOutcomes : FetchSettle(i, which, outcome)
    \/ \E i \in 1..MaxRuns + 1 : MapLoad(i)
    \/ \E i \in 1..MaxRuns + 1, c \in Names(CountriesGeo) : MapClick(i, c)
    \/ \E i \in 1..MaxRuns + 1 : MapResetClick(i)
    \/ \E i \in 1..MaxRuns + 1, hit \in Misses : MapClickMiss(i, hit)
    \/ \E i \in 1..MaxRuns + 1, throws \in BOOLEAN : FadeStep(i, throws)

SpecFade == InitFade /\ [][NextFade]_vars

\* ---------------------------------------------------------------- lifetime
\* the cleanup that runs when the page unmounts: React has already cleared
\* mapContainer.current, so only `if (map) map.remove()` of the current run
\* acts.  Runs whose fetches are pending stay, and so do the maps that runs
\* cleaned up earlier created afterwards: nothing removes them.
UnmountCleanup(rs) ==
    LET kept == SelectSeq(rs, LAMBDA r :
                    \/ r.pc = "fetching"
                    \/ (~r.current /\ r.pc \in { "created", "loaded" }))
    IN  [ i \in 1..Len(kept) |-> Stale(kept[i]) ]

Unmount ==
    /\ mounted
    /\ ~effectsPending
    /\ mounted' = FALSE
    /\ runs' = UnmountCleanup(runs)
    /\ lastEvent' = Event("unmount", "")
    /\ UNCHANGED << variant, selectedRegion, viewMode, selectedCountry, regions,
                    summaryPc, resetDep, effectsPending, fn, lastHover >>

HasCanvas(r) == r.pc \in { "created", "loaded", "layers" }
Which(r) == IF r.current THEN "current" ELSE "stale"

\* canvas "webglcontextlost": e.preventDefault(); console.warn
ContextLost(i) ==
    /\ ~effectsPending
    /\ variant = "maplibre"
    /\ i \in 1..Len(runs)
    /\ HasCanvas(runs[i])
    /\ runs[i].ctx # "lost"
    /\ runs' = [runs EXCEPT ![i] = [runs[i] EXCEPT !.ctx = "lost"]]
    /\ UNCHANGED << variant, selectedRegion, viewMode, selectedCountry, regions,
                    summaryPc, resetDep, effectsPending, lastEvent, mounted, fn,
                    lastHover >>

\* canvas "webglcontextrestored": console.warn; map.resize()
ContextRestored(i) ==
    /\ ~effectsPending
    /\ variant = "maplibre"
    /\ i \in 1..Len(runs)
    /\ runs[i].ctx = "lost"
    /\ runs' = [runs EXCEPT ![i] = [runs[i] EXCEPT !.ctx = "restored"]]
    /\ lastEvent' = Event("contextRestored", Which(runs[i]))
    /\ UNCHANGED << variant, selectedRegion, viewMode, selectedCountry, regions,
                    summaryPc, resetDep, effectsPending, mounted, fn, lastHover >>

NextLife ==
    \/ Next
    \/ Unmount
    \/ \E i \in 1..MaxRuns + 1 : ContextLost(i)
    \/ \E i \in 1..MaxRuns + 1 : ContextRestored(i)

SpecLife == Init /\ [][NextLife]_vars

\* ---------------------------------------------------------------- sources
\* regionFC, regionCountries and regionRisk are computed from the two loaded
\* collections, regionData and the selectedRegion prop alone.  SpecFn applies
\* them to every input within the bounds: fn holds the inputs and, after a
\* call, the key and the values computed.
RegionNames == { "Africa", "Europe" }
RiskZones == { "Green", "Warning", "Red" }

\* values of the selectedRegion prop: the region names and a name no region has
Keys == RegionNames \cup { "Antarctica" }

RegionFeatures == { [NAME |-> n] : n \in RegionNames }

CountryFeatures ==
    { [NAME |-> "Kenya",  CONTINENT |-> "Africa"],
      [NAME |-> "Egypt",  CONTINENT |-> "Africa"],
      [NAME |-> "France", CONTINENT |-> "Europe"],
      [NAME |-> "Antarctica", CONTINENT |-> "Antarctica"] }

SeqsUpTo(S, n) == UNION { [1..k -> S] : k \in 0..n }

\* byName of Home.load: the regions that have a summary, with its risk_zone
RegionDatas == UNION { [D -> RiskZones \cup { "" }] : D \in SUBSET RegionNames }

FnInput(rg, cs, rd) ==
    [ op |-> "none", regions |-> rg, countries |-> cs, regionData |-> rd,
      key |-> "", region |-> << >>, ctry |-> << >>, parts |-> << >>,
      zone |-> "", color |-> "" ]

InitFn ==
    /\ variant \in { "maplibre", "svg" }
    /\ selectedRegion = ""
    /\ viewMode = "region"
    /\ selectedCountry = NULL
    /\ regions = << >>
    /\ summaryPc = "pending"
    /\ resetDep = Unmounted
    /\ effectsPending = TRUE
    /\ runs = << >>
    /\ lastEvent = Event("mount", "")
    /\ mounted = TRUE
    /\ lastHover = NoHover
    /\ \E rg \in SeqsUpTo(RegionFeatures, MaxFeatures),
          cs \in SeqsUpTo(CountryFeatures, MaxFeatures),
          rd \in RegionDatas : fn = FnInput(rg, cs, rd)

\* the inputs of the calls, without the result of an earlier call
Inputs == FnInput(fn.regions, fn.countries, fn.regionData)

Home == << variant, selectedRegion, viewMode, selectedCountry, regions, summaryPc,
           resetDep, effectsPending, runs, lastEvent, mounted, lastHover >>

\* the load handler (the render, in the SVG revision) builds the region
\* source and the countries source for selectedRegion = key
RegionSources(key) ==
    /\ fn' = [Inputs EXCEPT !.op = "regionSources", !.key = key,
                            !.region = RegionFC(fn.regions, key),
                            !.ctry = FilterCountries(fn.countries, key)]
    /\ UNCHANGED Home

\* the countries source for each name of the regions collection
CountriesOfAll ==
    /\ fn' = [Inputs EXCEPT !.op = "countriesOfAll",
                            !.parts = [ r \in Names(fn.regions) |->
                                          FilterCountries(fn.countries, r) ]]
    /\ UNCHANGED Home

\* regionRisk and the colour of region-fill and country-highlight
RegionRisk(key) ==
    /\ fn' = [Inputs EXCEPT !.op = "regionRisk", !.key = key,
                            !.zone = RiskOf(fn.regionData, key),
                            !.color = RegionColor(RiskOf(fn.regionData, key))]
    /\ UNCHANGED Home

NextFn ==
    \/ \E key \in Keys : RegionSources(key)
    \/ CountriesOfAll
    \/ \E key \in Keys : RegionRisk(key)

SpecFn == InitFn /\ [][NextFn]_vars

\* ---------------------------------------------------------------- fitToFeature
\* [longitude, latitude]
Positions == { << -10, 40 >>, << 0, -5 >>, << 20, 10 >> }

Rings == SeqsUpTo(Positions, MaxRing)
PolygonCoords == SeqsUpTo(Rings, MaxRing)
\* the polygons of a MultiPolygon: at most two rings of at most one position
SmallPolygons == SeqsUpTo(SeqsUpTo(Positions, 1), 2)
MultiPolygonCoords == SeqsUpTo(SmallPolygons, 2)

\* what fitToFeature is called with: no feature (regionFeature undefined), a
\* feature without geometry, a geometry of another type, a geometry whose
\* coordinates member is missing, a Polygon, a MultiPolygon
Feature(present, type, wellFormed, coordinates) ==
    [ present |-> present, type |-> type, wellFormed |-> wellFormed,
      coordinates |-> coordinates ]

FitFeatures ==
    { Feature(FALSE, "none", TRUE, << >>),
      Feature(TRUE, "none", TRUE, << >>),
      Feature(TRUE, "Point", TRUE, << >>),
      Feature(TRUE, "Polygon", FALSE, << >>),
      Feature(TRUE, "MultiPolygon", FALSE, << >>) }
    \cup { Feature(TRUE, "Polygon", TRUE, c) : c \in PolygonCoords }
    \cup { Feature(TRUE, "MultiPolygon", TRUE, c) : c \in MultiPolygonCoords }

\* the pad argument of the call sites: region 60, country 68
Pads == { 60, 68 }

\* Array.prototype.flat(1)
RECURSIVE Flat(_)
Flat(a) == IF a = << >> THEN << >> ELSE Head(a) \o Flat(Tail(a))

PushCoords_OuterRing(g) ==
    IF g.type = "Polygon"
    THEN (IF g.coordinates = << >> THEN << >> ELSE g.coordinates[1])
    ELSE IF g.type = "MultiPolygon" THEN Flat(Flat(g.coordinates))
    ELSE << >>

\* push: Polygon -> coordinates.flat(1), MultiPolygon -> coordinates.flat(2)
PushCoords(g) ==
    IF g.type = "Polygon" THEN Flat(g.coordinates)
    ELSE IF g.type = "MultiPolygon" THEN Flat(Flat(g.coordinates))
    ELSE << >>

\* m.easeTo({ center: [10, 20], zoom: 1.8, duration: 600 })
EaseToWorld ==
    [ call |-> "easeTo", center |-> << 10, 20 >>, zoom |-> "1.8",
      duration |-> 600, outcome |-> "returned" ]

\* Math.min(...xs), Math.max(...xs)
MathMin(xs) == CHOOSE x \in Range(xs) : \A y \in Range(xs) : x <= y
MathMax(xs) == CHOOSE x \in Range(xs) : \A y \in Range(xs) : x >= y

\* m.fitBounds([sw, ne], { padding: pad, duration: 650, maxZoom: 5.5 })
FitBounds(coords, pad) ==
    LET lngs == [ i \in 1..Len(coords) |-> coords[i][1] ]
        lats == [ i \in 1..Len(coords) |-> coords[i][2] ]
    IN  [ call |-> "fitBounds",
          sw |-> << MathMin(lngs), MathMin(lats) >>,
          ne |-> << MathMax(lngs), MathMax(lats) >>,
          padding |-> pad, duration |-> 650, maxZoom |-> "5.5",
          outcome |-> "returned" ]

\* g.coordinates.flat throws when the geometry has no coordinates array
FlatThrows(feature) ==
    /\ feature.present
    /\ feature.type \in { "Polygon", "MultiPolygon" }
    /\ ~feature.wellFormed

FitToFeature_NoCatch(feature, pad) ==
    IF FlatThrows(feature) THEN [ call |-> "none", outcome |-> "threw" ]
    ELSE LET coords == IF feature.present /\ feature.type # "none"
                       THEN PushCoords(feature) ELSE << >>
         IN  IF Len(coords) > 0 THEN FitBounds(coords, pad) ELSE EaseToWorld

\* fitToFeature(m, feature, pad): try { ... } catch { m.easeTo(world) }
FitToFeature(feature, pad) ==
    IF FlatThrows(feature) THEN EaseToWorld
    ELSE LET coords == IF feature.present /\ feature.type # "none"
                       THEN PushCoords(feature) ELSE << >>
         IN  IF Len(coords) > 0 THEN FitBounds(coords, pad) ELSE EaseToWorld

\* ---------------------------------------------------------------- layers
\* the style of a surface: its sources and its layers, bottom to top
FreshStyle == [ sources |-> { }, layers |-> << >> ]

Layer(id, source, filter) == [ id |-> id, source |-> source, filter |-> filter ]

\* the layers the load handler adds after the background, in order; the
\* filter ["==", ["get", "NAME"], ""] is written ""
RegionLayers ==
    << Layer("region-fill", "region", "none"),
       Layer("region-outline", "region", "none") >>
CountryLayers ==
    << Layer("countries-hit", "countries", "none"),
       Layer("country-highlight", "countries", ""),
       Layer("country-outline", "countries", "") >>

LayerIds(style) == { style.layers[i].id : i \in 1..Len(style.layers) }

\* map.addLayer: a layer whose id exists is not added again
AddLayers(style, ls) ==
    [style EXCEPT !.layers =
        @ \o SelectSeq(ls, LAMBDA l : l.id \notin LayerIds(style))]

LoadLayers_Append(style) ==
    LET bg == AddLayers(style, << Layer("bg", "none", "none") >>)
    IN  [ sources |-> bg.sources \cup { "region", "countries" },
          layers |-> bg.layers \o RegionLayers \o CountryLayers ]

\* the load handler up to the country-outline layer.  The background layer is
\* added inside try/catch; map.addSource throws when the id exists, which
\* ends the handler there.
LoadLayers(style) ==
    LET bg == AddLayers(style, << Layer("bg", "none", "none") >>)
    IN  IF "region" \in bg.sources THEN bg
        ELSE LET rg == AddLayers([bg EXCEPT !.sources = @ \cup { "region" }],
                                 RegionLayers)
             IN  IF "countries" \in rg.sources THEN rg
                 ELSE AddLayers([rg EXCEPT !.sources = @ \cup { "countries" }],
                                CountryLayers)

\* SpecFit applies fitToFeature and the layer creation: fn holds the feature
\* and, after a call, the pad and the request issued, or the style of the
\* surface and the number of runs of the layer creation
FitInput(feature) ==
    [ op |-> "none", feature |-> feature, pad |-> 0, out |-> EaseToWorld,
      style |-> FreshStyle, calls |-> 0 ]

InitFit ==
    /\ variant = "maplibre"
    /\ selectedRegion = ""
    /\ viewMode = "region"
    /\ selectedCountry = NULL
    /\ regions = << >>
    /\ summaryPc = "pending"
    /\ resetDep = Unmounted
    /\ effectsPending = TRUE
    /\ runs = << >>
    /\ lastEvent = Event("mount", "")
    /\ mounted = TRUE
    /\ lastHover = NoHover
    /\ \E feature \in FitFeatures : fn = FitInput(feature)

FitCall(pad) ==
    /\ fn' = [FitInput(fn.feature) EXCEPT !.op = "fit", !.pad = pad,
                                          !.out = FitToFeature(fn.feature, pad)]
    /\ UNCHANGED Home

LoadLayersCall ==
    /\ fn.calls < MaxCalls
    /\ fn' = [FitInput(fn.feature) EXCEPT !.op = "layers",
                                          !.style = LoadLayers(fn.style),
                                          !.calls = fn.calls + 1]
    /\ UNCHANGED Home

NextFit ==
    \/ \E pad \in Pads : FitCall(pad)
    \/ LoadLayersCall

SpecFit == InitFit /\ [][NextFit]_vars

TypeOK ==
    /\ variant \in { "maplibre", "svg" }
    /\ viewMode \in { "region", "country" }
    /\ Len(runs) <= MaxRuns
    /\ Cardinality({ i \in 1..Len(runs) : runs[i].current }) <= 1

\* ---------------------------------------------------------------- properties
\* handlers that call onCountrySelect(lastEvent.arg)
SelectOps == { "mapClick", "svgClick", "svgReset" }
\* the map's reset control
ResetOps == { "mapReset", "svgReset" }

Pre == lastEvent.pre

\* C1: in every reachable selection state, selectedCountry is non-null
\* exactly when viewMode is "country".
C1_CountryIffCountryMode ==
    (selectedCountry # NULL) <=> (viewMode = "country")

C1_Witness ==
    /\ lastEvent.op \in { "mapClick", "svgClick" }
    /\ viewMode = "country"
    /\ selectedCountry = lastEvent.arg

\* C2: a selected country names a feature of the countries collection whose
\* CONTINENT is the selected region.
C2_CountryInSelectedRegion ==
    selectedCountry # NULL =>
        \E i \in 1..Len(CountriesGeo) :
            /\ CountriesGeo[i].NAME = selectedCountry
            /\ CountriesGeo[i].CONTINENT = selectedRegion

\* C3: once the dropdown's onChange(r) and the effects it causes have run,
\* selectedRegion = r, viewMode = "region" and selectedCountry is null,
\* whatever the state before (r equal to the selected region included).
C3_ChooseRegionResets ==
    (lastEvent.op = "chooseRegion" /\ ~effectsPending) =>
        /\ selectedRegion = lastEvent.arg
        /\ viewMode = "region"
        /\ selectedCountry = NULL

\* C4: after a change of region, no committed render and no run of the map
\* effect sees the new selectedRegion together with viewMode = "country" or
\* with the country selected before.
C4_NoRenderSeesStaleCountry ==
    (/\ lastEvent.op = "chooseRegion"
     /\ lastEvent.arg # Pre.selectedRegion
     /\ selectedRegion = lastEvent.arg) =>
        /\ viewMode = "region"
        /\ selectedCountry = NULL
        /\ \A i \in 1..Len(runs) :
              (runs[i].current /\ runs[i].region = lastEvent.arg) =>
                  (runs[i].vm = "region" /\ runs[i].sc = NULL)

\* C5: a click on a country c of the selected region, from region view or
\* from country view with another country, gives viewMode = "country" and
\* selectedCountry = c and leaves selectedRegion alone.
C5_SelectCountrySelects ==
    (/\ lastEvent.op \in SelectOps
     /\ lastEvent.arg \in Names(RegionCountries(Pre.selectedRegion))
     /\ (Pre.viewMode = "region" \/ Pre.selectedCountry # lastEvent.arg)) =>
        /\ viewMode = "country"
        /\ selectedCountry = lastEvent.arg
        /\ selectedRegion = Pre.selectedRegion

C5_Witness ==
    /\ lastEvent.op \in SelectOps
    /\ lastEvent.arg \in Names(RegionCountries(Pre.selectedRegion))
    /\ Pre.viewMode = "country"
    /\ Pre.selectedCountry # lastEvent.arg
    /\ ~effectsPending

\* C6: onCountrySelect(name) with a name that is not a country of the
\* selected region leaves selectedRegion, viewMode and selectedCountry as
\* they were.
C6_InvalidSelectIgnored ==
    (/\ lastEvent.op \in SelectOps
     /\ lastEvent.arg \notin Names(RegionCountries(Pre.selectedRegion))) =>
        Sel = Pre

\* C7: the Back button, pressed in country view, gives viewMode = "region"
\* and selectedCountry = null with selectedRegion unchanged; its handler
\* changes nothing in region view.
C7_BackReturnsToRegion ==
    /\ lastEvent.op = "back" =>
          /\ viewMode = "region"
          /\ selectedCountry = NULL
          /\ selectedRegion = Pre.selectedRegion
    /\ viewMode = "region" => BackOnClick(Sel) = Sel

C7_Witness ==
    /\ lastEvent.op = "back"
    /\ Pre.viewMode = "country"
    /\ Pre.selectedCountry \in Names(RegionCountries(Pre.selectedRegion))
    /\ ~effectsPending

\* C8: after the map's reset control was activated, in any state, the host
\* state is viewMode = "region" and selectedCountry = null.
C8_ResetClearsSelection ==
    lastEvent.op \in ResetOps =>
        (viewMode = "region" /\ selectedCountry = NULL)

\* C9: a run has a surface (or rendered collections) only when both of its
\* fetches were fulfilled; a run one of whose fetches was rejected has
\* failed and has none, in whichever order the two settled.
C9_SurfaceOnlyAfterBothFetches ==
    \A i \in 1..Len(runs) :
        /\ runs[i].pc \in { "created", "loaded" } =>
              (runs[i].fr = "fulfilled" /\ runs[i].fc = "fulfilled")
        /\ (runs[i].fr = "rejected" \/ runs[i].fc = "rejected") =>
              runs[i].pc = "failed"

C9_Witness ==
    \E i \in 1..Len(runs) :
        /\ runs[i].fr = "fulfilled"
        /\ runs[i].fc = "rejected"
        /\ runs[i].pc = "failed"

\* C10: when a geometry load has failed, the view shows an error state in
\* place of the map.
C10_LoadFailureShowsError ==
    (\E i \in 1..Len(runs) : runs[i].pc = "failed") => MapView = "error"

\* the filter the highlight layers should carry in selection state st
ExpectedFilter(st) == IF st.viewMode = "country" THEN st.selectedCountry ELSE ""

\* C11: once the page is unmounted no rendering surface is alive, whatever
\* the moment of the unmount.
C11_UnmountReleasesAll ==
    ~mounted => \A i \in 1..Len(runs) : ~HasCanvas(runs[i])

\* every load has succeeded and every map has loaded
Quiescent ==
    /\ ~effectsPending
    /\ \A i \in 1..Len(runs) : runs[i].pc = "loaded"

Surfaces == { i \in 1..Len(runs) : runs[i].pc = "loaded" }
TopSurface == runs[CHOOSE i \in Surfaces : \A j \in Surfaces : j <= i]

\* C12: once all pending work is done, the surface on top of the container
\* was built from the selection state after the last selection event.
C12_LastEventWins ==
    (variant = "maplibre" /\ Quiescent /\ Surfaces # {}) =>
        /\ TopSurface.region = MapRegionProp(Sel, regions)
        /\ TopSurface.vm = viewMode
        /\ TopSurface.sc = selectedCountry

\* C13: right after the context of the current map was restored, its layers
\* show the selection state of that moment.
C13_RestoredReflectsState ==
    (lastEvent.op = "contextRestored" /\ lastEvent.arg = "current") =>
        \A i \in 1..Len(runs) :
            (runs[i].current /\ runs[i].pc = "loaded") =>
                /\ runs[i].hl = ExpectedFilter(Sel)
                /\ runs[i].region = MapRegionProp(Sel, regions)

\* C14: no handler writes a filter to a surface whose context is lost.
C14_NoWriteWhileLost == ~lastEvent.lost

CurrentSurface ==
    \E i \in 1..Len(runs) :
        runs[i].current /\ runs[i].pc \in { "created", "loaded" }

\* C15: no step of the mounted page destroys the surface of the current run.
C15_SurfaceKept ==
    [][(CurrentSurface /\ mounted') => CurrentSurface']_vars

SelectionOps ==
    { "chooseRegion", "back", "mapClick", "mapReset", "svgClick", "svgReset" }

\* C16: the effects that follow a region choice, a country click or a reset
\* start no further geometry load.
C16_LoadOncePerMount ==
    [][(effectsPending /\ lastEvent.op \in SelectionOps) =>
         ~(/\ runs' # runs
           /\ \E i \in 1..Len(runs') :
                 /\ runs'[i].current
                 /\ runs'[i].fr = "pending"
                 /\ runs'[i].fc = "pending")]_vars

\* C17: when the current surface is loaded and no effect is pending, its
\* highlight filter matches selectedCountry in country view and nothing in
\* region view.
C17_FilterMatchesState ==
    \A i \in 1..Len(runs) :
        (runs[i].current /\ runs[i].pc = "loaded" /\ ~effectsPending) =>
            Highlighted(runs[i]) = ExpectedFilter(Sel)

\* occurrences of feature f in collection s
Count(s, f) == Cardinality({ i \in 1..Len(s) : s[i] = f })

\* C18: the region source holds the one feature named selectedRegion, or
\* nothing when the regions collection has none; the countries source holds
\* exactly the country features whose CONTINENT is selectedRegion, as often
\* as the collection holds them, and is empty when there is none.
C18_SourcesForRegion ==
    fn.op = "regionSources" =>
        /\ fn.region = IF fn.key \in Names(fn.regions)
                       THEN << [NAME |-> fn.key] >> ELSE << >>
        /\ \A f \in CountryFeatures :
              Count(fn.ctry, f) = IF f.CONTINENT = fn.key
                                  THEN Count(fn.countries, f) ELSE 0

C18_Witness ==
    /\ fn.op = "regionSources"
    /\ Len(fn.region) = 1
    /\ Len(fn.regions) = 2
    /\ Len(fn.ctry) = 1
    /\ Len(fn.countries) = 2

\* countriesOf(r) holds only countries of r, and all of them
PartsFiltered ==
    \A r \in DOMAIN fn.parts :
        /\ \A i \in 1..Len(fn.parts[r]) : fn.parts[r][i].CONTINENT = r
        /\ \A f \in Range(fn.parts[r]) :
              Count(fn.parts[r], f) = Count(fn.countries, f)

\* the results that hold feature f
PartsWith(f) == { r \in DOMAIN fn.parts : f \in Range(fn.parts[r]) }

\* C19 as stated: the results of countriesOf over the names of the regions
\* collection hold only countries of their region, and every country of the
\* country collection is in exactly one of them.
C19_PartitionOfAll ==
    fn.op = "countriesOfAll" =>
        /\ PartsFiltered
        /\ \A f \in Range(fn.countries) : Cardinality(PartsWith(f)) = 1

\* C19: the results of countriesOf over the names of the regions collection
\* hold only countries of their region; a country whose CONTINENT is one of
\* these names is in exactly one result, as often as the collection holds
\* it, and a country whose CONTINENT is none of them is in no result.
C19_PartitionOfKnown ==
    fn.op = "countriesOfAll" =>
        /\ PartsFiltered
        /\ \A f \in Range(fn.countries) :
              Cardinality(PartsWith(f)) =
                  IF f.CONTINENT \in Names(fn.regions) THEN 1 ELSE 0

C19_Witness ==
    /\ fn.op = "countriesOfAll"
    /\ Names(fn.regions) = RegionNames
    /\ \E f \in Range(fn.countries) : f.CONTINENT \notin Names(fn.regions)
    /\ \E f \in Range(fn.countries) : PartsWith(f) = { "Europe" }

\* C20: regionRisk is the risk_zone of the summary of selectedRegion when
\* there is one, and Warning when regionData has no entry for it; the colour
\* of the fill and of the highlight is the colour of that zone.
C20_RiskZoneOrWarning ==
    fn.op = "regionRisk" =>
        /\ (fn.key \in DOMAIN fn.regionData /\ fn.regionData[fn.key] \in RiskZones)
               => fn.zone = fn.regionData[fn.key]
        /\ fn.key \notin DOMAIN fn.regionData => fn.zone = "Warning"
        /\ << fn.zone, fn.color >> \in { << "Green", "#22c55e" >>,
                                         << "Warning", "#fbbf24" >>,
                                         << "Red", "#ef4444" >> }

C20_Witness ==
    /\ fn.op = "regionRisk"
    /\ DOMAIN fn.regionData = { "Africa" }
    /\ fn.regionData["Africa"] = "Red"
    /\ fn.key = "Europe"
    /\ fn.zone = "Warning"
    /\ fn.color = "#fbbf24"

\* every position of the geometry of feature f
AllPositions(f) ==
    IF ~f.present \/ ~f.wellFormed THEN { }
    ELSE IF f.type = "Polygon"
    THEN UNION { Range(f.coordinates[r]) : r \in 1..Len(f.coordinates) }
    ELSE IF f.type = "MultiPolygon"
    THEN UNION { UNION { Range(f.coordinates[p][r]) :
                           r \in 1..Len(f.coordinates[p]) } :
                   p \in 1..Len(f.coordinates) }
    ELSE { }

\* C21: fitToFeature called with no feature, with a feature without
\* geometry or with a geometry that has no position returns normally and
\* issues easeTo to centre [10, 20] at zoom 1.8, and no bounds fit.
C21_EmptyFitsWorld ==
    (fn.op = "fit" /\ AllPositions(fn.feature) = { }) =>
        fn.out = [ call |-> "easeTo", center |-> << 10, 20 >>, zoom |-> "1.8",
                   duration |-> 600, outcome |-> "returned" ]

C21_Witness ==
    /\ fn.op = "fit"
    /\ fn.feature.type = "Polygon"
    /\ ~fn.feature.wellFormed
    /\ fn.out.call = "easeTo"

\* C29: for a feature with at least one position the request is fitBounds
\* with sw = (least longitude, least latitude) and ne = (greatest longitude,
\* greatest latitude) over every position of every ring of every polygon,
\* the pad given and maxZoom 5.5.
C29_BoundsOfAllRings ==
    (fn.op = "fit" /\ AllPositions(fn.feature) # { }) =>
        LET P == AllPositions(fn.feature)
        IN  /\ fn.out.call = "fitBounds"
            /\ \A p \in P : /\ fn.out.sw[1] <= p[1] /\ fn.out.sw[2] <= p[2]
                             /\ fn.out.ne[1] >= p[1] /\ fn.out.ne[2] >= p[2]
            /\ \E p \in P : fn.out.sw[1] = p[1]
            /\ \E p \in P : fn.out.sw[2] = p[2]
            /\ \E p \in P : fn.out.ne[1] = p[1]
            /\ \E p \in P : fn.out.ne[2] = p[2]
            /\ fn.out.padding = fn.pad
            /\ fn.out.maxZoom = "5.5"

C29_Witness ==
    /\ fn.op = "fit"
    /\ fn.feature.type = "Polygon"
    /\ Len(fn.feature.coordinates) = 2
    /\ fn.out.call = "fitBounds"
    /\ fn.out.sw \notin AllPositions(fn.feature)
    /\ fn.out.sw[1] \notin { p[1] : p \in Range(fn.feature.coordinates[1]) }

LayersWith(id) ==
    { i \in 1..Len(fn.style.layers) : fn.style.layers[i].id = id }

C23_MissIsNoOp ==
    [][(lastEvent'.op = "mapClickMiss" /\ lastEvent' # lastEvent) =>
          UNCHANGED << selectedRegion, viewMode, selectedCountry, regions,
                       effectsPending, runs >>]_vars

C23_Witness ==
    /\ lastEvent.op = "mapClickMiss"
    /\ viewMode = "country"
    /\ \E i \in 1..Len(runs) :
          /\ runs[i].pc = "loaded"
          /\ runs[i].hl = selectedCountry
          /\ runs[i].vp = selectedCountry

\* C25: at most one surface is attached to the container, and a run whose
\* cleanup has executed has none.
C25_OneLiveSurface ==
    /\ Cardinality({ i \in 1..Len(runs) : HasCanvas(runs[i]) }) <= 1
    /\ \A i \in 1..Len(runs) : HasCanvas(runs[i]) => runs[i].current

\* C27: the name a click passes to onCountrySelect is the name of a country
\* whose CONTINENT is the selectedRegion of Home at that moment.
C27_ClickedCountryInRegion ==
    lastEvent.op \in { "mapClick", "svgClick" } =>
        lastEvent.arg \in Names(RegionCountries(Pre.selectedRegion))

\* C24: the selection state starts in region view with no country; once the
\* summaries have loaded with a first region, selectedRegion is a non-empty,
\* defined region name, in that state and in every later one.
C24_RegionNeverEmpty ==
    /\ lastEvent.op = "mount" => (viewMode = "region" /\ selectedCountry = NULL)
    /\ (summaryPc = "done" /\ regions # << >> /\ regions[1] # "") =>
           selectedRegion \notin { "", Undefined }

\* C26: in the create-once revision, when the map has loaded and no effect
\* is pending, the data of the region source is the current regionFC prop
\* and the opacity of region-fill is the one of the current viewMode.
C26_LoadedShowsLatestProps ==
    (variant = "once" /\ ~effectsPending /\ runs # << >>) =>
        (runs[1].pc = "loaded" =>
            /\ runs[1].src = selectedRegion
            /\ runs[1].opacity = IF viewMode = "detailed" THEN "0.7" ELSE "0.3")

\* C28: no call is issued to a surface that has been removed: no frame of
\* the fade-in sets the opacity of region-fill on a removed map.
C28_NoCallAfterRemove ==
    ~(lastEvent.op = "fadeStep" /\ lastEvent.arg = "removed")

\* a frame of the fade-in fired on run i and wrote the opacity of its own map
FadeFrame(i) ==
    /\ i \in 1..Len(runs)
    /\ Len(runs') = Len(runs)
    /\ runs[i].frame
    /\ runs[i].pc = "loaded"
    /\ runs' # runs
    /\ runs' = [runs EXCEPT ![i] = [runs[i] EXCEPT !.t = runs'[i].t,
                                                   !.fill = runs'[i].fill,
                                                   !.frame = runs'[i].frame]]

\* C32: the fade-in of region-fill terminates: from its initial opacity (0 in
\* Region view, 0.15 in Country view) every frame writes an opacity that is
\* not below the one written before and not above the target (0.68 in Region
\* view, 0.25 in Country view), every frame moves the loop closer to the
\* target, and the loop stops exactly when the written opacity is the target.
C32_FadeInMonotone ==
    [][\A i \in 1..MaxRuns + 1 :
          FadeFrame(i) =>
              /\ runs'[i].fill >= runs[i].fill
              /\ runs'[i].fill <= FadeTarget(runs[i].vm)
              /\ runs'[i].t > runs[i].t
              /\ runs'[i].frame <=> (runs'[i].fill < FadeTarget(runs[i].vm))]_vars

\* C31: the tooltip is visible exactly while the pointer is over a feature
\* of the hit layer: after any sequence of pointer-move and pointer-leave
\* events a tooltip is shown iff the last of them was a move, and then the
\* one tooltip shown carries the name of the feature of that move.
C31_TooltipIffLastMove ==
    mounted =>
        TooltipsShown = IF lastHover.ev = "move" THEN { lastHover.name } ELSE { }
====
